---- MODULE Spec2Model ----
(***************************************************************************)
(* A model of lifetmm's TransferMatrix object (src/lifetmm/TransferMatrix.py) *)
(* and of the root finder it uses (src/lifetmm/HelperFunctions.py).          *)
(*                                                                           *)
(* Number representation.                                                    *)
(*   - a refractive index is a record [re, im] of integers;                  *)
(*   - n_11 is a record [re, im] in thousandths (n_11 = 1000 means 1.0);     *)
(*   - an angle is an integer number of milliradians;                        *)
(*   - a wavelength is a record [nan, v], v in half units (v = 3 is 1.5),    *)
(*     k_vac is [nan, v] in thousandths, omega = c * k_vac with c in km/s;   *)
(*   - a position z is held doubled (zz = 2 * z), so that the half-step      *)
(*     offsets of the sampling grids are integers.                           *)
(* An argument that the caller passes is a record [arr, v]: arr = TRUE is an *)
(* array (batched) argument, v the scalar otherwise.                         *)
(***************************************************************************)
EXTENDS Integers, Sequences, FiniteSets, TLC

VARIABLES
    d_list,        \* self.d_list
    n_list,        \* self.n_list
    d_cumulative,  \* self.d_cumulative
    num_layers,    \* self.num_layers
    lam_vac,       \* self.lam_vac
    k_vac,         \* self.k_vac
    omega,         \* self.omega
    field,         \* self.field
    pol,           \* self.pol
    th,            \* self.th
    n_11,          \* self.n_11
    run,           \* the locals of a calc_field_structure() that is under way
    call,          \* history: the last call made on the object and its outcome
    n11_by,        \* history: which operation wrote n_11 last
    flipped        \* history: flip() has run since n_11 was last written

struct == <<d_list, n_list, d_cumulative, num_layers>>
config == <<lam_vac, k_vac, omega, field, pol, th, n_11>>
hist   == <<call, n11_by, flipped>>
vars   == <<d_list, n_list, d_cumulative, num_layers,
            lam_vac, k_vac, omega, field, pol, th, n_11,
            run, call, n11_by, flipped>>

----------------------------------------------------------------------------
(* Bounds of the model *)

MaxLayers == 2

----------------------------------------------------------------------------
(* Numbers *)

PiMicro == 3141593        \* numpy.pi, in millionths
SpeedC == 299792          \* scipy.constants.c, in km/s

NaN == [nan |-> TRUE, v |-> 0]
Num(x) == [nan |-> FALSE, v |-> x]
Scalar(x) == [arr |-> FALSE, v |-> x]
Batched == [arr |-> TRUE, v |-> 0]

Cx(a, b) == [re |-> a, im |-> b]

\* np.isreal(n): the imaginary part is zero
IsReal(n) == n.im = 0

\* numpy's order on complex scalars: by real part, then by imaginary part
CxLess(a, b) == a.re < b.re \/ (a.re = b.re /\ a.im < b.im)

\* numpy.sin of an angle of t milliradians, in thousandths: the series
\* t - t^3/3! + t^5/5! - t^7/7!, each power kept in thousandths
SinMilli(t) ==
    LET t2 == (t * t) \div 1000
        t3 == (t2 * t) \div 1000
        t5 == (t3 * t2) \div 1000
        t7 == (t5 * t2) \div 1000
    IN  t - (t3 \div 6) + (t5 \div 120) - (t7 \div 5040)

\* th * (pi / 180), to the nearest milliradian
DegToMrad(deg) == (deg * PiMicro + 90000) \div 180000

RECURSIVE SumTo(_, _)
SumTo(s, i) == IF i = 0 THEN 0 ELSE SumTo(s, i - 1) + s[i]

\* np.cumsum
CumSum(s) == [i \in 1..Len(s) |-> SumTo(s, i)]

\* s[::-1]
Reverse(s) == [i \in 1..Len(s) |-> s[Len(s) + 1 - i]]

----------------------------------------------------------------------------
(* Construction *)

\* no calc_field_structure() is under way
Idle == [active |-> FALSE]

Init ==
    /\ d_list = <<>>
    /\ n_list = <<>>
    /\ d_cumulative = <<>>
    /\ num_layers = 0
    /\ lam_vac = NaN
    /\ k_vac = NaN
    /\ omega = NaN
    /\ field = "E"
    /\ pol = "TE"
    /\ th = 0
    /\ n_11 = Cx(0, 0)
    /\ run = Idle
    /\ call = [op |-> "__init__", arg |-> <<>>, ok |-> TRUE, ret |-> <<>>]
    /\ n11_by = "__init__"
    /\ flipped = FALSE

Returned(op, arg, ret) == run' = run /\ call' = [op |-> op, arg |-> arg, ok |-> TRUE, ret |-> ret]
Raised(op, arg) == run' = run /\ call' = [op |-> op, arg |-> arg, ok |-> FALSE, ret |-> <<>>]

----------------------------------------------------------------------------
(* Structure *)

\* add_layer(d, n); n is [arr, v] with v a complex index
add_layer(d, n) ==
    IF d >= 0 /\ ~n.arr /\ (num_layers = 0 => IsReal(n.v))
    THEN /\ d_list' = Append(d_list, d)
         /\ n_list' = Append(n_list, n.v)
         /\ d_cumulative' = CumSum(d_list')
         /\ num_layers' = Len(d_list')
         /\ Returned("add_layer", <<d, n>>, <<>>)
         /\ UNCHANGED <<config, n11_by, flipped>>
    ELSE /\ Raised("add_layer", <<d, n>>)
         /\ UNCHANGED <<struct, config, n11_by, flipped>>

flip_no_cumsum ==
    /\ d_list' = Reverse(d_list)
    /\ n_list' = Reverse(n_list)
    /\ Returned("flip", <<>>, <<>>)
    /\ flipped' = TRUE
    /\ UNCHANGED <<d_cumulative, num_layers, config, n11_by>>

flip ==
    /\ d_list' = Reverse(d_list)
    /\ n_list' = Reverse(n_list)
    /\ d_cumulative' = CumSum(d_list')
    /\ Returned("flip", <<>>, <<>>)
    /\ flipped' = TRUE
    /\ UNCHANGED <<num_layers, config, n11_by>>

----------------------------------------------------------------------------
(* Configuration *)

\* 2 * pi / lam_vac, in hundredths, for a wavelength of v half units
KVacOf(v) == (4 * PiMicro) \div (10000 * v)

\* set_vacuum_wavelength(lam_vac) without its assertion num_layers > 0
set_vacuum_wavelength_any_structure(lam) ==
    IF ~lam.arr /\ lam.v > 0
    THEN /\ lam_vac' = Num(lam.v)
         /\ k_vac' = Num(KVacOf(lam.v))
         /\ omega' = Num(SpeedC * k_vac'.v)
         /\ Returned("set_vacuum_wavelength", <<lam>>, <<>>)
         /\ UNCHANGED <<struct, field, pol, th, n_11, n11_by, flipped>>
    ELSE /\ Raised("set_vacuum_wavelength", <<lam>>)
         /\ UNCHANGED <<struct, config, n11_by, flipped>>

\* set_vacuum_wavelength(lam_vac)
set_vacuum_wavelength(lam) ==
    IF ~lam.arr /\ lam.v > 0 /\ num_layers > 0
    THEN /\ lam_vac' = Num(lam.v)
         /\ k_vac' = Num(KVacOf(lam.v))
         /\ omega' = Num(SpeedC * k_vac'.v)
         /\ Returned("set_vacuum_wavelength", <<lam>>, <<>>)
         /\ UNCHANGED <<struct, field, pol, th, n_11, n11_by, flipped>>
    ELSE /\ Raised("set_vacuum_wavelength", <<lam>>)
         /\ UNCHANGED <<struct, config, n11_by, flipped>>

set_polarization_unchecked(p) ==
    /\ pol' = p
    /\ Returned("set_polarization", <<p>>, <<>>)
    /\ UNCHANGED <<struct, lam_vac, k_vac, omega, field, th, n_11, n11_by, flipped>>

\* set_polarization(pol)
set_polarization(p) ==
    IF p \in {"s", "p", "TE", "TM"}
    THEN /\ pol' = p
         /\ Returned("set_polarization", <<p>>, <<>>)
         /\ UNCHANGED <<struct, lam_vac, k_vac, omega, field, th, n_11, n11_by, flipped>>
    ELSE /\ Raised("set_polarization", <<p>>)
         /\ UNCHANGED <<struct, config, n11_by, flipped>>

\* set_field(field)
set_field(f) ==
    IF f \in {"E", "H"}
    THEN /\ field' = f
         /\ Returned("set_field", <<f>>, <<>>)
         /\ UNCHANGED <<struct, lam_vac, k_vac, omega, pol, th, n_11, n11_by, flipped>>
    ELSE /\ Raised("set_field", <<f>>)
         /\ UNCHANGED <<struct, config, n11_by, flipped>>

\* 0 <= th < pi / 2 (units = 'radians'), 0 <= th < 90 (units = 'degrees')
AngleInRange(t, units) ==
    IF units = "radians" THEN 0 <= t /\ 2000 * t < PiMicro
    ELSE 0 <= t /\ t < 90

\* the value set_incident_angle stores in self.th
AngleStored(t, units) == IF units = "radians" THEN t ELSE DegToMrad(t)

\* n_list[0] * sin(th)
N11OfAngle(n, t) == Cx(n.re * SinMilli(t), n.im * SinMilli(t))

set_incident_angle_old_th(t, units) ==
    IF t.arr \/ units \notin {"radians", "degrees"} \/ ~AngleInRange(t.v, units)
    THEN /\ Raised("set_incident_angle", <<t, units>>)
         /\ UNCHANGED <<struct, config, n11_by, flipped>>
    ELSE /\ th' = AngleStored(t.v, units)
         /\ IF num_layers = 0
            THEN /\ Raised("set_incident_angle", <<t, units>>)
                 /\ UNCHANGED <<n_11, n11_by, flipped>>
            ELSE /\ n_11' = N11OfAngle(n_list[1], th)
                 /\ n11_by' = "set_incident_angle"
                 /\ flipped' = FALSE
                 /\ Returned("set_incident_angle", <<t, units>>, <<>>)
         /\ UNCHANGED <<struct, lam_vac, k_vac, omega, field, pol>>

\* set_incident_angle(th, units): self.th is assigned before n_list[0] is read
set_incident_angle(t, units) ==
    IF t.arr \/ units \notin {"radians", "degrees"} \/ ~AngleInRange(t.v, units)
    THEN /\ Raised("set_incident_angle", <<t, units>>)
         /\ UNCHANGED <<struct, config, n11_by, flipped>>
    ELSE /\ th' = AngleStored(t.v, units)
         /\ IF num_layers = 0
            THEN /\ Raised("set_incident_angle", <<t, units>>)
                 /\ UNCHANGED <<n_11, n11_by, flipped>>
            ELSE /\ n_11' = N11OfAngle(n_list[1], th')
                 /\ n11_by' = "set_incident_angle"
                 /\ flipped' = FALSE
                 /\ Returned("set_incident_angle", <<t, units>>, <<>>)
         /\ UNCHANGED <<struct, lam_vac, k_vac, omega, field, pol>>

\* set_mode_n_11(n_11)
set_mode_n_11(x) ==
    IF ~x.arr
    THEN /\ n_11' = Cx(x.v, 0)
         /\ n11_by' = "set_mode_n_11"
         /\ flipped' = FALSE
         /\ Returned("set_mode_n_11", <<x>>, <<>>)
         /\ UNCHANGED <<struct, lam_vac, k_vac, omega, field, pol, th>>
    ELSE /\ Raised("set_mode_n_11", <<x>>)
         /\ UNCHANGED <<struct, config, n11_by, flipped>>

----------------------------------------------------------------------------
(* Results of method calls: Ok(v) is a returned value, Err(e) a raised      *)
(* exception.  A method that reads self.n_11 takes its value as the last    *)
(* parameter x, so that calc_s11 can evaluate it at its probe value.        *)

Ok(v) == [ok |-> TRUE, val |-> v]
Err(e) == [ok |-> FALSE, val |-> e]

\* the statements F that follow a call with outcome r: an exception of the
\* call propagates, a returned value goes on to F
Then(r, F(_)) == IF ~r.ok THEN r ELSE F(r.val)

\* Python indexing of the layer arrays: j in -len .. len - 1
PyIndexOK(j) == 0 - Len(n_list) <= j /\ j < Len(n_list)
PyIndex(j) == IF j >= 0 THEN j + 1 ELSE Len(n_list) + j + 1

CxSq(a) == Cx(a.re * a.re - a.im * a.im, 2 * a.re * a.im)
CxSub(a, b) == Cx(a.re - b.re, a.im - b.im)
CxScale(a, m) == Cx(a.re * m, a.im * m)

----------------------------------------------------------------------------
(* Floating-point values are kept by class: "Z" zero, "F" finite and not    *)
(* zero, "I" infinite, "N" NaN.  numpy divides by zero without raising.     *)
(* A sum of two terms is taken not to cancel unless both are zero: this     *)
(* holds for xi_j + xi_k (principal square roots) and, for the indices of   *)
(* the model, for the TM denominators.                                      *)

ClsMul(a, b) ==
    IF a = "N" \/ b = "N" THEN "N"
    ELSE IF (a = "Z" /\ b = "I") \/ (a = "I" /\ b = "Z") THEN "N"
    ELSE IF a = "Z" \/ b = "Z" THEN "Z"
    ELSE IF a = "I" \/ b = "I" THEN "I"
    ELSE "F"

ClsDiv(a, b) ==
    IF a = "N" \/ b = "N" THEN "N"
    ELSE IF b = "Z" THEN (IF a = "Z" THEN "N" ELSE "I")
    ELSE IF b = "I" THEN (IF a = "I" THEN "N" ELSE "Z")
    ELSE a

ClsAdd(a, b) ==
    IF a = "N" \/ b = "N" THEN "N"
    ELSE IF a = "I" \/ b = "I" THEN "I"
    ELSE IF a = "Z" /\ b = "Z" THEN "Z"
    ELSE "F"

ClsOf(c) == IF c.re = 0 /\ c.im = 0 THEN "Z" ELSE "F"

----------------------------------------------------------------------------
(* Wave-vector kernel *)

\* nj ** 2 - n_11 ** 2 in millionths: the square of xi
Xi2(nj, x) == CxSub(CxSq(CxScale(nj, 1000)), CxSq(x))

\* calc_xi(j): sqrt(nj ** 2 - n_11 ** 2), returned as its square
calc_xi(j, x) ==
    IF ~PyIndexOK(j) THEN Err("IndexError")
    ELSE Ok([xi2 |-> Xi2(n_list[PyIndex(j)], x)])

\* calc_k(j)
calc_k(j) ==
    IF ~(0 <= j /\ j <= num_layers - 1) THEN Err("AssertionError")
    ELSE IF k_vac.nan THEN Err("AssertionError")
    ELSE Ok([k |-> n_list[PyIndex(j)].re * k_vac.v])

\* calc_q(j): xi * k_vac
calc_q(j, x) ==
    IF k_vac.nan THEN Err("AssertionError")
    ELSE Then(calc_xi(j, x), LAMBDA xi : Ok([xi2 |-> xi.xi2, k_vac |-> k_vac.v]))

\* calc_k_11()
calc_k_11(x) ==
    IF k_vac.nan THEN Err("AssertionError")
    ELSE Ok([k_11 |-> CxScale(x, k_vac.v)])

\* calc_wave_vector_components(j)
calc_wave_vector_components(j, x) ==
    Then(calc_k(j), LAMBDA k :
    Then(calc_k_11(x), LAMBDA k_11 :
    Then(calc_q(j, x), LAMBDA q :
        Ok([k |-> k.k, q |-> q, k_11 |-> k_11.k_11]))))

----------------------------------------------------------------------------
(* Interface and propagation matrices.  A matrix is a record [kind, factors]: *)
(* kind is "finite", "inf" (every entry infinite) or "nan" (some entry NaN), *)
(* factors the sequence of interface and propagation factors it is the       *)
(* product of, det the class of its determinant.  det(I) = (1 - r^2) / t^2   *)
(* is zero when r = 1, that is when xi_k = 0; det(L) = 1.  val holds the     *)
(* four entries by value for a single interface whose square roots are       *)
(* exact, and is <<>> otherwise.                                             *)

\* the class of xi in layer j for n_11 = x
XiCls(j, x) == ClsOf(Xi2(n_list[PyIndex(j)], x))

\* the transmission coefficient t of i_matrix, before the field conversion
TCoefficient(j, k, x) ==
    LET nj == ClsOf(n_list[PyIndex(j)])
        nk == ClsOf(n_list[PyIndex(k)])
        qj == XiCls(j, x)
        qk == XiCls(k, x)
    IN  IF pol \in {"p", "TM"}
        THEN ClsDiv(ClsMul(ClsMul(nj, nk), qj),
                    ClsAdd(ClsMul(qj, ClsMul(nk, nk)), ClsMul(qk, ClsMul(nj, nj))))
        ELSE ClsDiv(qj, ClsAdd(qj, qk))

\* a - b, which is zero when the two terms are the same
ClsSub(a, b, same) ==
    IF same /\ a \notin {"I", "N"} THEN "Z" ELSE ClsAdd(a, b)

\* the reflection coefficient r of i_matrix; the two terms of its numerator
\* are the same when the two layers have the same index
RCoefficient(j, k, x) ==
    LET nj == ClsOf(n_list[PyIndex(j)])
        nk == ClsOf(n_list[PyIndex(k)])
        qj == XiCls(j, x)
        qk == XiCls(k, x)
        same == n_list[PyIndex(j)] = n_list[PyIndex(k)]
    IN  IF pol \in {"p", "TM"}
        THEN ClsDiv(ClsSub(ClsMul(ClsMul(nk, nk), qj), ClsMul(ClsMul(nj, nj), qk), same),
                    ClsAdd(ClsMul(ClsMul(nk, nk), qj), ClsMul(ClsMul(nj, nj), qk)))
        ELSE ClsDiv(ClsSub(qj, qk, same), ClsAdd(qj, qk))

\* t *= nk / nj when the field is H
TConverted(t, j, k) ==
    IF field = "H"
    THEN ClsMul(t, ClsDiv(ClsOf(n_list[PyIndex(k)]), ClsOf(n_list[PyIndex(j)])))
    ELSE t

\* Where the square root of calc_xi is exact, the coefficients are also kept
\* by value, as fractions [n, d] of complex integers.
CxAdd(a, b) == Cx(a.re + b.re, a.im + b.im)
CxMul(a, b) == Cx(a.re * b.re - a.im * b.im, a.re * b.im + a.im * b.re)
Abs(i) == IF i < 0 THEN -i ELSE i
RECURSIVE Gcd(_, _)
Gcd(a, b) == IF b = 0 THEN Abs(a) ELSE Gcd(b, Abs(a) % Abs(b))
\* n / d in lowest terms; a fraction whose terms are all zero is kept as it is
Frac(n, d) ==
    LET g == Gcd(Gcd(n.re, n.im), Gcd(d.re, d.im))
    IN  IF g = 0 THEN [n |-> n, d |-> d]
        ELSE [n |-> Cx(n.re \div g, n.im \div g), d |-> Cx(d.re \div g, d.im \div g)]
\* a real fraction n / d in lowest terms
Ratio(n, d) ==
    LET g == Gcd(n, d)
    IN  IF g = 0 THEN [n |-> n, d |-> d] ELSE [n |-> n \div g, d |-> d \div g]
FracDiv(a, b) == Frac(CxMul(a.n, b.d), CxMul(a.d, b.n))
FracEq(a, b) == CxMul(a.n, b.d) = CxMul(b.n, a.d)

\* sqrt(nj ** 2 - n_11 ** 2) in units of the index: <<nj>> at n_11 = 0 (the
\* indices have a positive real part), <<0>> at n_11 = nj, <<>> where the
\* value is not kept
XiValue(nj, x) ==
    IF x = Cx(0, 0) THEN <<nj>>
    ELSE IF x = CxScale(nj, 1000) THEN <<Cx(0, 0)>>
    ELSE <<>>

\* r of i_matrix with the formula of the 's'/'TE' branch taken for every
\* polarization
RValueSameSign(nj, nk, qj, qk) == Frac(CxSub(qj, qk), CxAdd(qj, qk))

\* r of i_matrix by value, for xi_j = qj and xi_k = qk
RValue(nj, nk, qj, qk) ==
    IF pol \in {"p", "TM"}
    THEN Frac(CxSub(CxMul(CxSq(nk), qj), CxMul(CxSq(nj), qk)),
              CxAdd(CxMul(CxSq(nk), qj), CxMul(CxSq(nj), qk)))
    ELSE Frac(CxSub(qj, qk), CxAdd(qj, qk))

\* t of i_matrix by value, converted when the field is H
TValue(nj, nk, qj, qk) ==
    FracDiv(IF pol \in {"p", "TM"}
            THEN Frac(CxScale(CxMul(CxMul(nj, nk), qj), 2),
                      CxAdd(CxMul(qj, CxSq(nk)), CxMul(qk, CxSq(nj))))
            ELSE Frac(CxScale(qj, 2), CxAdd(qj, qk)),
            IF field = "H" THEN Frac(nj, nk) ELSE Frac(Cx(1, 0), Cx(1, 0)))

\* (1 / t) * [[1, r], [r, 1]] by value
MatrixValue(r, t) ==
    [s00 |-> FracDiv(Frac(Cx(1, 0), Cx(1, 0)), t), s01 |-> FracDiv(r, t),
     s10 |-> FracDiv(r, t), s11 |-> FracDiv(Frac(Cx(1, 0), Cx(1, 0)), t)]

\* the entries of i_matrix(j, k) by value: <<>> where they are not kept
IMatrixValue(kind, nj, nk, qj, qk) ==
    IF kind # "finite" \/ qj = <<>> \/ qk = <<>> THEN <<>>
    ELSE <<MatrixValue(RValue(nj, nk, qj[1], qk[1]), TValue(nj, nk, qj[1], qk[1]))>>

\* the matrix of i_matrix with entries of the kind `kind'
IMatrixOf(kind, j, k, x) ==
    [kind |-> kind,
     factors |-> <<<<"I", j, k>>>>,
     det |-> IF kind # "finite" THEN "N" ELSE IF XiCls(k, x) = "Z" THEN "Z" ELSE "F",
     val |-> IMatrixValue(kind, n_list[PyIndex(j)], n_list[PyIndex(k)],
                          XiValue(n_list[PyIndex(j)], x), XiValue(n_list[PyIndex(k)], x))]

\* (1 / t) * [[1, r], [r, 1]]
MatrixKind(r, t) ==
    LET inv == ClsDiv("F", t)
        off == ClsMul(r, inv)
    IN  IF inv = "N" \/ off = "N" THEN "nan"
        ELSE IF inv = "I" \/ off = "I" THEN "inf"
        ELSE "finite"

\* if t == 0: the matrix of four infinities, else (1 / t) * [[1, r], [r, 1]]
IMatrixKind(r, t) == IF t = "Z" THEN "inf" ELSE MatrixKind(r, t)

\* i_matrix(j, k): for t == 0 the matrix of four infinities is returned
i_matrix(j, k, x) ==
    IF ~PyIndexOK(j) \/ ~PyIndexOK(k) THEN Err("IndexError")
    ELSE Ok(IMatrixOf(IMatrixKind(RCoefficient(j, k, x),
                                  TConverted(TCoefficient(j, k, x), j, k)),
                      j, k, x))

\* l_matrix(j) without its assertion dj > 0
l_matrix_any_thickness(j, x) ==
    Then(calc_q(j, x), LAMBDA qj :
        Ok([kind |-> "finite", factors |-> <<<<"L", j>>>>, det |-> "F", val |-> <<>>]))

\* l_matrix(j); the overflow assertion holds for the thicknesses of the model
l_matrix(j, x) ==
    Then(calc_q(j, x), LAMBDA qj :
        IF ~(d_list[PyIndex(j)] > 0) THEN Err("AssertionError")
        ELSE Ok([kind |-> "finite", factors |-> <<<<"L", j>>>>, det |-> "F",
                 val |-> <<>>]))

\* b @ a: the product taken in the other order
MatMulReversed(a, b) ==
    [kind |-> IF a.kind = "finite" /\ b.kind = "finite" THEN "finite" ELSE "nan",
     factors |-> b.factors \o a.factors,
     det |-> IF a.kind = "finite" /\ b.kind = "finite" THEN ClsMul(a.det, b.det) ELSE "N",
     val |-> <<>>]

\* a @ b: an infinite or NaN factor leaves NaN entries in the product; the
\* entries of a product are not kept by value (exp(1j * q * d) is not rational)
MatMul(a, b) ==
    [kind |-> IF a.kind = "finite" /\ b.kind = "finite" THEN "finite" ELSE "nan",
     factors |-> a.factors \o b.factors,
     det |-> IF a.kind = "finite" /\ b.kind = "finite" THEN ClsMul(a.det, b.det) ELSE "N",
     val |-> <<>>]

\* the loop of s_matrix, s_primed_matrix and s_dprimed_matrix:
\* for j in range(from, to): s = s @ l_matrix(j) @ i_matrix(j, j + 1)
RECURSIVE Chain(_, _, _, _)
Chain(s, from, to, x) ==
    IF from >= to THEN Ok(s)
    ELSE Then(l_matrix(from, x), LAMBDA l :
         Then(i_matrix(from, from + 1, x), LAMBDA i :
             Chain(MatMul(MatMul(s, l), i), from + 1, to, x)))

\* s_matrix()
s_matrix(x) ==
    Then(i_matrix(0, 1, x), LAMBDA s : Chain(s, 1, num_layers - 1, x))

\* the prefix product with the loop run over range(1, layer + 1)
s_primed_through(layer, x) ==
    Then(i_matrix(0, 1, x), LAMBDA s : Chain(s, 1, layer + 1, x))

\* s_primed_matrix(layer)
s_primed_matrix(layer, x) ==
    Then(i_matrix(0, 1, x), LAMBDA s : Chain(s, 1, layer, x))

\* s_dprimed_matrix(layer)
s_dprimed_matrix(layer, x) ==
    Then(i_matrix(layer, layer + 1, x), LAMBDA s :
        Chain(s, layer + 1, num_layers - 1, x))

\* An amplitude or coefficient is a term [expr, of, val]: the expression
\* that gives it, the factors of the matrix it is taken of, and its value
\* (<<>> where the value is not kept).
One == [expr |-> "1", of |-> <<>>, val |-> <<Frac(Cx(1, 0), Cx(1, 0))>>]
Zero == [expr |-> "0", of |-> <<>>, val |-> <<Frac(Cx(0, 0), Cx(1, 0))>>]

\* s[1, 0] / s[0, 0]
S10OverS00(s) ==
    [expr |-> "s[1,0]/s[0,0]", of |-> s.factors,
     val |-> IF s.val = <<>> THEN <<>> ELSE <<FracDiv(s.val[1].s10, s.val[1].s00)>>]

\* 1 / s[0, 0]
OneOverS00(s) ==
    [expr |-> "1/s[0,0]", of |-> s.factors,
     val |-> IF s.val = <<>> THEN <<>>
             ELSE <<FracDiv(Frac(Cx(1, 0), Cx(1, 0)), s.val[1].s00)>>]

\* calc_r_and_t(): r = s[1, 0] / s[0, 0], t = 1 / s[0, 0]
calc_r_and_t(x) ==
    Then(s_matrix(x), LAMBDA s :
        Ok([kind |-> IF s.kind = "finite" THEN "finite" ELSE "nan",
            s |-> s.factors,
            r |-> S10OverS00(s),
            t |-> OneOverS00(s)]))

\* abs(c) ** 2 of a fraction of complex integers, as a fraction [n, d] of integers
AbsSq(c) == Ratio(c.n.re * c.n.re + c.n.im * c.n.im, c.d.re * c.d.re + c.d.im * c.d.im)

\* rho * m of the correction: n_2 / n_1 at th = 0, where th_out = snell(...) = 0
\* and cos(th_out) / cos(th) = 1; <<>> at other angles, where it is not kept
BeamExpansion ==
    IF th = 0 THEN <<Ratio(n_list[Len(n_list)].re, n_list[1].re)>> ELSE <<>>

\* transmittance *= rho * m
Corrected(transmittance, factor) ==
    Ratio(transmittance.n * factor.n, transmittance.d * factor.d)

\* calc_reflectance_and_transmittance(correction=True); R and T are <<>>
\* where r and t are not kept by value
calc_reflectance_and_transmittance(x) ==
    Then(calc_r_and_t(x), LAMBDA rt :
        Ok([kind |-> rt.kind, s |-> rt.s, th |-> th,
            R |-> IF rt.r.val = <<>> THEN <<>> ELSE <<AbsSq(rt.r.val[1])>>,
            T |-> IF rt.t.val = <<>> \/ BeamExpansion = <<>> THEN <<>>
                  ELSE <<Corrected(AbsSq(rt.t.val[1]), BeamExpansion[1])>>]))

----------------------------------------------------------------------------
(* Field amplitudes and field profiles.  An amplitude pair is a record      *)
(* [branch, at, kind, plus, minus]; a sample is [layer, zz, amp]: the field *)
(* of `layer' at the doubled local position zz, with amplitudes amp.        *)

Max2(a, b) == IF a >= b THEN a ELSE b
SetMin(S) == CHOOSE m \in S : \A o \in S : m <= o
SetMax(S) == CHOOSE m \in S : \A o \in S : m >= o

\* self.n_11 < max(n[0], n[-1]) with n = self.n_list.real
IsRadiative(x) ==
    CxLess(x, Cx(1000 * Max2(n_list[1].re, n_list[Len(n_list)].re), 0))

\* 1 / s[1, 0]
OneOverS10(s) == [expr |-> "1/s[1,0]", of |-> s.factors, val |-> <<>>]

\* the amplitudes of an internal layer, which are not kept by value
Internal(expr, of) == [expr |-> expr, of |-> of, val |-> <<>>]

\* the entry pair with t in the place of r
RadiativeEntryTransmitted(s) == [plus |-> One, minus |-> OneOverS00(s)]

\* field_plus, field_minus of the entry layer and of the exit layer in the
\* radiative branch
RadiativeEntry(s) == [plus |-> One, minus |-> S10OverS00(s)]
RadiativeExit(s) == [plus |-> OneOverS00(s), minus |-> Zero]

\* the amplitude pair returned: the branch taken, the place of the layer, the
\* kind of the values, and the two amplitudes
Amplitudes(branch, at, kind, pair) ==
    [branch |-> branch, at |-> at, kind |-> kind,
     plus |-> pair.plus, minus |-> pair.minus]

\* layer_field_amplitudes(layer)
layer_field_amplitudes(layer, x) ==
    IF Len(n_list) = 0 THEN Err("IndexError")
    ELSE IF IsRadiative(x)
    THEN Then(s_matrix(x), LAMBDA s :
             IF layer = 0
             THEN Ok(Amplitudes("radiative", "entry", s.kind, RadiativeEntry(s)))
             ELSE IF layer = num_layers - 1
             THEN Ok(Amplitudes("radiative", "exit", s.kind, RadiativeExit(s)))
             ELSE Then(calc_q(layer, x), LAMBDA q :
                  Then(s_primed_matrix(layer, x), LAMBDA sp :
                  Then(s_dprimed_matrix(layer, x), LAMBDA sd :
                      Ok(Amplitudes("radiative", "internal", MatMul(sp, sd).kind,
                             [plus |-> Internal("t'/(1-r'r''e)", sp.factors \o sd.factors),
                              minus |-> Internal("field_plus r''e",
                                                 sp.factors \o sd.factors)]))))))
    ELSE IF layer = 0
         THEN Ok(Amplitudes("guided", "entry", "finite", [plus |-> Zero, minus |-> One]))
         ELSE IF layer = num_layers - 1
         THEN Then(s_matrix(x), LAMBDA s :
                  Ok(Amplitudes("guided", "exit", s.kind,
                                [plus |-> OneOverS10(s), minus |-> Zero])))
         ELSE Then(s_primed_matrix(layer, x), LAMBDA sp :
                  IF sp.det = "Z" THEN Err("AssertionError")
                  ELSE Ok(Amplitudes("guided", "internal",
                             IF sp.kind = "finite" THEN "finite" ELSE "nan",
                             [plus |-> Internal("-s'[0,1]/det(s')", sp.factors),
                              minus |-> Internal("s'[0,0]/det(s')", sp.factors)])))

\* np.arange(z_step, stop, z_step), doubled: the grid without its half-step
\* offset
ArangeFromStep(stop, z_step) ==
    [i \in 1..((stop + z_step - 1) \div z_step - 1) |-> 2 * z_step * i]

\* np.arange(z_step / 2.0, stop, z_step), doubled: z_step, 3 z_step, ... < 2 stop
Arange(stop, z_step) ==
    [i \in 1..((2 * stop + z_step - 1) \div (2 * z_step)) |-> z_step * (2 * i - 1)]

\* -z[::-1]
Mirror(z) == [i \in 1..Len(z) |-> 0 - z[Len(z) + 1 - i]]

\* the samples of calc_layer_field at the positions z, with the amplitudes amp
LayerField(layer, z, amp) ==
    [z |-> z, field |-> [i \in 1..Len(z) |-> [layer |-> layer, zz |-> z[i], amp |-> amp]]]

\* calc_layer_field(layer, z_step)
calc_layer_field(layer, z_step, x) ==
    IF ~PyIndexOK(layer) THEN Err("IndexError")
    ELSE IF ~(d_list[PyIndex(layer)] > 0) THEN Err("AssertionError")
    ELSE Then(calc_wave_vector_components(layer, x), LAMBDA w :
         Then(layer_field_amplitudes(layer, x), LAMBDA amp :
             Ok(LayerField(layer,
                           IF layer = 0
                           THEN Mirror(Arange(d_list[PyIndex(layer)], z_step))
                           ELSE Arange(d_list[PyIndex(layer)], z_step),
                           amp))))

\* z_mat: for each sample the number of cumulative boundaries below it
ZMat(z) ==
    [i \in 1..Len(z) |->
        Cardinality({l \in 1..Len(d_cumulative) : z[i] > 2 * d_cumulative[l]})]

\* z_indices = np.where(z_mat == layer)
LayerIndices(zmat, layer) == {i \in 1..Len(zmat) : zmat[i] = layer}

\* field[z_indices] = values: numpy assigns equal lengths and broadcasts one value
AssignOK(indices, values) ==
    Len(values) = Cardinality(indices) \/ Len(values) = 1

Assign(fld, indices, values) ==
    [i \in 1..Len(fld) |->
        IF i \notin indices THEN fld[i]
        ELSE IF Len(values) = 1 THEN values[1]
        ELSE values[Cardinality({o \in indices : o <= i})]]

\* the loop of calc_field_structure over the layers min(z_mat) .. max(z_mat);
\* calc_layer_field is called without z_step and so samples at its default 1
RECURSIVE FillLayers(_, _, _, _, _)
FillLayers(fld, layer, last, zmat, x) ==
    IF layer > last THEN Ok(fld)
    ELSE Then(calc_layer_field(layer, 1, x), LAMBDA lf :
             IF ~AssignOK(LayerIndices(zmat, layer), lf.field) THEN Err("ValueError")
             ELSE FillLayers(Assign(fld, LayerIndices(zmat, layer), lf.field),
                             layer + 1, last, zmat, x))

\* np.zeros(len(z))
Zeros(z) == [i \in 1..Len(z) |-> [layer |-> 0 - 1, zz |-> 0, amp |-> <<>>]]

\* the layers min(z_mat), max(z_mat) of the loop
FirstLayer(zmat) == SetMin({zmat[i] : i \in 1..Len(zmat)})
LastLayer(zmat) == SetMax({zmat[i] : i \in 1..Len(zmat)})

\* calc_field_structure for the positions z
FieldStructure(z, x) ==
    IF Len(z) = 0 THEN Err("ValueError")
    ELSE Then(FillLayers(Zeros(z), FirstLayer(ZMat(z)), LastLayer(ZMat(z)), ZMat(z), x),
              LAMBDA fld : Ok([z |-> z, field |-> fld]))

\* calc_field_structure(z_step)
calc_field_structure(z_step, x) ==
    IF Len(d_cumulative) = 0 THEN Err("IndexError")
    ELSE FieldStructure(Arange(d_cumulative[Len(d_cumulative)], z_step), x)

\* get_layer_position_indices(layer, z_step)
get_layer_position_indices(layer, z_step) ==
    IF Len(d_cumulative) = 0 THEN Err("IndexError")
    ELSE Ok(LayerIndices(ZMat(Arange(d_cumulative[Len(d_cumulative)], z_step)), layer))

----------------------------------------------------------------------------
(* Guided modes.  f(n_11) = Re(s_matrix()[0, 0]) is transcendental; the     *)
(* model takes its sign at the scan points a, a + eps, a + 2 eps, ... from  *)
(* a table F ("neg", "zero", "pos", "nan" where s_matrix is not finite, and *)
(* the name of the exception where s_matrix raises one) that the            *)
(* calculation is given, and the place of the root inside a bracket, in     *)
(* quarters of eps, from B.  The scan step eps of the model is ScanStep; a  *)
(* value of n_11 is in thousandths.                                         *)

ScanStep == 400

\* supports_guiding(): np.any(n[1:-1] > max(n[0], n[-1])) on the complex indices
supports_guiding ==
    IF Len(n_list) = 0 THEN Err("IndexError")
    ELSE LET last == n_list[Len(n_list)]
             clad == IF CxLess(n_list[1], last) THEN last ELSE n_list[1]
         IN  Ok(\E j \in 2..(Len(n_list) - 1) : CxLess(clad, n_list[j]))

\* numpy's order on complex scalars, not strict
CxLeq(a, b) == a = b \/ CxLess(a, b)
CxMinOf(S) == CHOOSE c \in S : \A o \in S : CxLeq(c, o)
CxMaxOf(S) == CHOOSE c \in S : \A o \in S : CxLeq(o, c)

\* mode_type(): 'Guided' if len(n) > 2 and max(n[1:-1]) >= n_11 >=
\* min(n[0], n[-1]), else 'Leaky'
mode_type(x) ==
    IF /\ Len(n_list) > 2
       /\ CxLeq(x, CxScale(CxMaxOf({n_list[j] : j \in 2..(Len(n_list) - 1)}), 1000))
       /\ CxLeq(CxScale(CxMinOf({n_list[1], n_list[Len(n_list)]}), 1000), x)
    THEN Ok("Guided")
    ELSE Ok("Leaky")

\* calc_s11(n_11) at the scan point x: the sign of s[0, 0].real, or the
\* exception of s_matrix
calc_s11(F, a, x) == F[(x - a) \div ScanStep]

\* f1 * f2 > 0.0
ProductPositive(f1, f2) == (f1 = "pos" /\ f2 = "pos") \/ (f1 = "neg" /\ f2 = "neg")

\* the while loop of root_search, from x1: <<x1, x2>>, or <<>> for (None, None)
RECURSIVE root_search_loop(_, _, _, _)
root_search_loop(F, a, x1, b) ==
    IF ProductPositive(calc_s11(F, a, x1), calc_s11(F, a, x1 + ScanStep))
    THEN IF x1 >= b THEN <<>> ELSE root_search_loop(F, a, x1 + ScanStep, b)
    ELSE <<x1, x1 + ScanStep>>

\* root_search(f, a, b, dx); a0 is the first scan point of the whole scan
root_search(F, a0, a, b) ==
    IF ~(a <= b) THEN Err("AssertionError")
    ELSE IF calc_s11(F, a0, a) \notin {"neg", "zero", "pos", "nan"}
    THEN Err(calc_s11(F, a0, a))
    ELSE Ok(root_search_loop(F, a0, a, b))

\* scipy.optimize.brentq(f, x1, x2): an end point where f is zero, a point
\* inside the bracket when the signs differ, and 0.0 when f is NaN at an end
\* point (the solver then stops at its initial xblk = 0 with fblk = 0)
brentq(F, B, a0, x1, x2) ==
    LET f1 == calc_s11(F, a0, x1)
        f2 == calc_s11(F, a0, x2)
    IN  IF f1 = "zero" THEN x1
        ELSE IF f2 = "zero" THEN x2
        ELSE IF f1 = "nan" \/ f2 = "nan" THEN 0
        ELSE x1 + B * (ScanStep \div 4)

\* round(root, -int(math.log(eps, 10))): to the nearest multiple of eps, a
\* tie to the even multiple
RoundToStep(root) ==
    LET q == root \div ScanStep
        r == root % ScanStep
    IN  IF 2 * r < ScanStep THEN q * ScanStep
        ELSE IF 2 * r > ScanStep THEN (q + 1) * ScanStep
        ELSE IF q % 2 = 0 THEN q * ScanStep
        ELSE (q + 1) * ScanStep

\* the loop of roots(f, a, b): [ok, val, last], last the last value given to f
RECURSIVE roots_loop(_, _, _, _, _, _)
roots_loop(F, B, a0, a, b, results) ==
    LET found == root_search(F, a0, a, b)
    IN  IF ~found.ok THEN [ok |-> FALSE, val |-> found.val, last |-> a]
        ELSE IF found.val = <<>>
        THEN [ok |-> TRUE, val |-> results,
              last |-> IF a >= b THEN a + ScanStep
                       ELSE a + ScanStep * (((b - a) + ScanStep - 1) \div ScanStep + 1)]
        ELSE LET root == brentq(F, B, a0, found.val[1], found.val[2])
             IN  roots_loop(F, B, a0, found.val[2], b,
                            IF root # 0 THEN Append(results, RoundToStep(root))
                            ELSE results)

\* roots(f, a, b, eps)
roots(F, B, a, b) == roots_loop(F, B, a, a, b, <<>>)

\* roots calls f at a + k eps for k in 0..ScanPoints(a, b) and nowhere else
\* outside a bracket
ScanPoints(a, b) == ((b - a) + ScanStep - 1) \div ScanStep + 1

RECURSIVE SeqMax(_, _)
SeqMax(s, i) == IF i = 1 THEN s[1] ELSE Max2(SeqMax(s, i - 1), s[i])
RECURSIVE SeqMin(_, _)
SeqMin(s, i) == IF i = 1 THEN s[1] ELSE (IF s[i] < SeqMin(s, i - 1) THEN s[i] ELSE SeqMin(s, i - 1))

\* n = self.n_list.real
RealParts == [i \in 1..Len(n_list) |-> n_list[i].re]

\* np.delete(n_11, np.where(n_11 - min(n) < 0.01))
RECURSIVE DeleteNear(_, _)
DeleteNear(s, low) ==
    IF s = <<>> THEN <<>>
    ELSE IF s[1] - low < 10 THEN DeleteNear(Tail(s), low)
    ELSE <<s[1]>> \o DeleteNear(Tail(s), low)

\* calc_guided_modes(normalised) with self.k_vac = kv: [ok, val, last]; last
\* is the value calc_s11 left in self.n_11, or <<>> when calc_s11 was not called
calc_guided_modes(F, B, normalised, kv) ==
    LET sg == supports_guiding
    IN  IF ~sg.ok THEN [ok |-> FALSE, val |-> sg.val, last |-> <<>>]
        ELSE IF ~sg.val THEN [ok |-> FALSE, val |-> "AssertionError", last |-> <<>>]
        ELSE LET a == 1000 * Max2(n_list[1].re, n_list[Len(n_list)].re)
                 b == 1000 * SeqMax(RealParts, Len(n_list))
                 found == roots(F, B, a, b)
                 kept == DeleteNear(Reverse(found.val),
                                    1000 * SeqMin(RealParts, Len(n_list)))
             IN  IF ~found.ok
                 THEN [ok |-> FALSE, val |-> found.val, last |-> <<found.last>>]
                 ELSE [ok |-> TRUE,
                       val |-> IF normalised THEN kept
                               ELSE [i \in 1..Len(kept) |-> kept[i] * kv.v],
                       last |-> <<found.last>>]

----------------------------------------------------------------------------
\* int(x) for x = h / 2: truncation towards zero, in half units
IntOfHalves(h) == IF h >= 0 THEN 2 * (h \div 2) ELSE 0 - 2 * ((0 - h) \div 2)

\* the two mode lists compared without the assertion on their lengths
ModeCountsUnchecked(beta_lower, beta_upper) == TRUE

\* assert len(beta_lower) == len(beta_upper)
ModeCountsEqual(beta_lower, beta_upper) == Len(beta_lower) = Len(beta_upper)

\* beta_upper - beta_lower: numpy broadcasts an array of one element
Broadcasts(beta_lower, beta_upper) ==
    Len(beta_lower) = Len(beta_upper) \/ Len(beta_lower) = 1 \/ Len(beta_upper) = 1
BroadcastLen(beta_lower, beta_upper) ==
    IF Len(beta_lower) = 1 THEN Len(beta_upper) ELSE Len(beta_lower)
BroadcastAt(beta, i) == IF Len(beta) = 1 THEN beta[1] ELSE beta[i]

\* calc_group_velocity() where the two calls of calc_guided_modes give r1 and
\* r2.  A failure leaves the wavelength and n_11 as they are at the failing
\* statement; ret.modes holds the mode lists found so far.
calc_group_velocity(r1, r2) ==
    LET upper == IntOfHalves(lam_vac.v + 2)
        lower == IntOfHalves(lam_vac.v - 2)
        arg == <<lam_vac>>
        Fail(exc, lam, last, modes) ==
            /\ run' = run /\ call' = [op |-> "calc_group_velocity", arg |-> arg, ok |-> FALSE,
                        ret |-> [exc |-> exc, modes |-> modes]]
            /\ lam_vac' = Num(lam)
            /\ k_vac' = Num(KVacOf(lam))
            /\ omega' = Num(SpeedC * KVacOf(lam))
            /\ n_11' = IF last = <<>> THEN n_11 ELSE Cx(last[1], 0)
            /\ n11_by' = IF last = <<>> THEN n11_by ELSE "calc_s11"
            /\ UNCHANGED <<struct, field, pol, th, flipped>>
    IN  IF lam_vac.nan
        THEN /\ run' = run /\ call' = [op |-> "calc_group_velocity", arg |-> arg, ok |-> FALSE,
                         ret |-> [exc |-> "ValueError", modes |-> <<>>]]
             /\ UNCHANGED <<struct, config, n11_by, flipped>>
        ELSE IF ~r1.ok THEN Fail(r1.val, upper, r1.last, <<>>)
        ELSE IF ~(lower > 0) THEN Fail("AssertionError", upper, r1.last, <<r1.val>>)
        ELSE IF ~r2.ok
        THEN Fail(r2.val, lower, IF r2.last = <<>> THEN r1.last ELSE r2.last, <<r1.val>>)
        ELSE IF ~ModeCountsEqual(r1.val, r2.val)
        THEN Fail("AssertionError", lower, r2.last, <<r1.val, r2.val>>)
        ELSE IF ~Broadcasts(r1.val, r2.val)
        THEN Fail("ValueError", lower, r2.last, <<r1.val, r2.val>>)
        ELSE /\ run' = run /\ call' = [op |-> "calc_group_velocity", arg |-> arg, ok |-> TRUE,
                         ret |-> [samples |-> <<lower, upper>>,
                                  modes |-> <<r1.val, r2.val>>,
                                  vg |-> [i \in 1..BroadcastLen(r1.val, r2.val) |->
                                             IF BroadcastAt(r2.val, i)
                                                    - BroadcastAt(r1.val, i) = 0
                                             THEN "I" ELSE "F"]]]
             /\ n_11' = Cx(r2.last[1], 0)
             /\ n11_by' = "calc_s11"
             /\ UNCHANGED <<struct, lam_vac, k_vac, omega, field, pol, th, flipped>>

----------------------------------------------------------------------------
(* The object's interface: inputs and the next-state relation *)

Thicknesses == {0 - 1, 1, 2}
Indices == {Scalar(Cx(1, 0)), Scalar(Cx(2, 0)), Scalar(Cx(2, 1))}
Wavelengths == {Scalar(0), Scalar(4), Batched}
Polarizations == {"p", "x"}
Fields == {"H", "B"}
Angles == {<<Scalar(524), "radians">>, <<Scalar(1571), "radians">>,
           <<Scalar(30), "degrees">>, <<Scalar(90), "degrees">>,
           <<Scalar(0 - 1), "degrees">>, <<Scalar(0), "gradians">>,
           <<Batched, "radians">>}
ModeN11s == {Scalar(1500), Batched}

AddLayer ==
    \E d \in Thicknesses, n \in Indices :
        num_layers < MaxLayers /\ add_layer(d, n)
Flip == flip
SetVacuumWavelength == \E lam \in Wavelengths : set_vacuum_wavelength(lam)
SetPolarization == \E p \in Polarizations : set_polarization(p)
SetField == \E f \in Fields : set_field(f)
SetIncidentAngle == \E a \in Angles : set_incident_angle(a[1], a[2])
SetModeN11 == \E x \in ModeN11s : set_mode_n_11(x)

Next ==
    \/ AddLayer
    \/ Flip
    \/ SetVacuumWavelength
    \/ SetPolarization
    \/ SetField
    \/ SetIncidentAngle
    \/ SetModeN11

Spec == Init /\ [][Next]_vars

----------------------------------------------------------------------------
(* Claims about the structure and the configuration (specification Spec) *)

\* C1: after any sequence of add_layer and flip calls, failed add_layer calls
\* included, d_list, n_list and d_cumulative all have num_layers entries and
\* d_cumulative[i] is the sum of the first i thicknesses of d_list.
C1_StructureConsistent ==
    /\ Len(d_list) = num_layers
    /\ Len(n_list) = num_layers
    /\ Len(d_cumulative) = num_layers
    /\ \A i \in 1..num_layers : d_cumulative[i] = SumTo(d_list, i)

C1_Witness ==
    /\ call.op = "flip"
    /\ num_layers >= 2
    /\ d_list[1] # d_list[2]

\* C2 as stated: whenever n_11 was last written by set_incident_angle,
\* n_11 = n_list[0] * sin(th) for the current entry layer, also after flip().
C2_N11FollowsEntryLayer ==
    (n11_by = "set_incident_angle") =>
        /\ n_11.re = n_list[1].re * SinMilli(th)
        /\ n_11.im = n_list[1].im * SinMilli(th)

\* C2 amended: whenever n_11 was last written by set_incident_angle and flip()
\* has not run since, n_11 = n_list[0] * sin(th); flip() leaves n_11 as it was.
C2_N11FollowsEntryLayerUntilFlip ==
    (n11_by = "set_incident_angle" /\ ~flipped) =>
        /\ n_11.re = n_list[1].re * SinMilli(th)
        /\ n_11.im = n_list[1].im * SinMilli(th)

C2_Witness ==
    /\ n11_by = "set_incident_angle"
    /\ ~flipped
    /\ call.op = "add_layer" /\ call.ok
    /\ th # 0
    /\ n_list[1] # n_list[num_layers]

\* C3: in every state reachable by add_layer and flip the entry layer
\* n_list[0] has a real refractive index.
C3_EntryLayerReal == (num_layers > 0) => IsReal(n_list[1])

\* C4: a setter called with an invalid value (a polarization outside s, p, TE,
\* TM; a field outside E, H; a wavelength <= 0 or batched; an angle outside
\* [0, pi/2) or [0, 90) or with unknown units; a thickness < 0) fails and
\* leaves the structure and the configuration unchanged; pol and field always
\* hold valid tags.
C4_InvalidArgument(c) ==
    \/ c.op = "set_polarization" /\ c.arg[1] \notin {"s", "p", "TE", "TM"}
    \/ c.op = "set_field" /\ c.arg[1] \notin {"E", "H"}
    \/ c.op = "set_vacuum_wavelength" /\ (c.arg[1].arr \/ c.arg[1].v <= 0)
    \/ /\ c.op = "set_incident_angle"
       /\ ~c.arg[1].arr
       /\ \/ c.arg[2] \notin {"radians", "degrees"}
          \/ c.arg[2] = "radians" /\ (c.arg[1].v < 0 \/ c.arg[1].v >= 1571)
          \/ c.arg[2] = "degrees" /\ (c.arg[1].v < 0 \/ c.arg[1].v >= 90)
    \/ c.op = "add_layer" /\ c.arg[1] < 0

----------------------------------------------------------------------------
(* Calculations on the object (specification SpecCalc) *)

MaxStack == 3

\* a call that leaves self.n_11 at a value it has probed
QueryProbing(op, arg, res) ==
    /\ run' = run /\ call' = [op |-> op, arg |-> arg, ok |-> res.ok, ret |-> res.val]
    /\ n_11' = Cx(n_11.re + ScanStep, n_11.im)
    /\ UNCHANGED <<struct, lam_vac, k_vac, omega, field, pol, th, n11_by, flipped>>

\* a call that only reads the object: its outcome is recorded
Query(op, arg, res) ==
    /\ run' = run /\ call' = [op |-> op, arg |-> arg, ok |-> res.ok, ret |-> res.val]
    /\ UNCHANGED <<struct, config, n11_by, flipped>>

StackThicknesses == {0, 2}
StackIndices == {Scalar(Cx(1, 0)), Scalar(Cx(2, 0))}
StackWavelengths == {Scalar(4)}
StackModeN11s == {Scalar(1000), Scalar(1500)}
Steps == {1, 2}

StackAddLayer ==
    \E d \in StackThicknesses, n \in StackIndices :
        num_layers < MaxStack /\ add_layer(d, n)
StackSetVacuumWavelength == \E lam \in StackWavelengths : set_vacuum_wavelength(lam)
StackSetModeN11 == \E x \in StackModeN11s : set_mode_n_11(x)
StackSetPolarization == set_polarization("TM")
StackSetField == set_field("H")

SMatrix == Query("s_matrix", <<>>, s_matrix(n_11))
CalcRAndT == Query("calc_r_and_t", <<>>, calc_r_and_t(n_11))
CalcReflectanceAndTransmittance ==
    Query("calc_reflectance_and_transmittance", <<>>,
          calc_reflectance_and_transmittance(n_11))
IMatrix ==
    \E j \in 0..(MaxStack - 2) :
        Query("i_matrix", <<j, j + 1>>, i_matrix(j, j + 1, n_11))
LayerFieldAmplitudes ==
    \E layer \in 0..(MaxStack - 1) :
        Query("layer_field_amplitudes", <<layer>>, layer_field_amplitudes(layer, n_11))
CalcFieldStructure ==
    \E z_step \in Steps :
        Query("calc_field_structure", <<z_step>>, calc_field_structure(z_step, n_11))

NextCalc ==
    \/ StackAddLayer
    \/ StackSetVacuumWavelength
    \/ StackSetModeN11
    \/ StackSetPolarization
    \/ StackSetField
    \/ IMatrix
    \/ SMatrix
    \/ CalcRAndT
    \/ CalcReflectanceAndTransmittance
    \/ LayerFieldAmplitudes
    \/ CalcFieldStructure

SpecCalc == Init /\ [][NextCalc]_vars

\* C5: every calculation entry point called on a structure with fewer than
\* 2 layers fails instead of returning a result.
C5_TooFewLayersRejected ==
    (/\ call.op \in {"s_matrix", "calc_r_and_t", "calc_reflectance_and_transmittance",
                     "layer_field_amplitudes", "calc_field_structure",
                     "calc_guided_modes"}
     /\ num_layers < 2)
        => ~call.ok

\* the transmission coefficient of the interface between layers j and j + 1 is 0
C6_ZeroT(j) ==
    /\ PyIndexOK(j) /\ PyIndexOK(j + 1)
    /\ TConverted(TCoefficient(j, j + 1, n_11), j, j + 1) = "Z"

\* C6: when t = 0 at an interface, i_matrix signals an error and returns no
\* matrix with inf or NaN entries, so s_matrix, calc_r_and_t and
\* layer_field_amplitudes return no value computed from such a matrix.
C6_ZeroTransmissionSignalled ==
    /\ (call.op = "i_matrix" /\ C6_ZeroT(call.arg[1])) => ~call.ok
    /\ (/\ call.op \in {"s_matrix", "calc_r_and_t", "layer_field_amplitudes"}
        /\ \E j \in 0..(num_layers - 2) : C6_ZeroT(j)
        /\ call.ok)
           => call.ret.kind = "finite"

\* the layer that holds the doubled position zz, and zz relative to the
\* boundary the layer's amplitudes refer to
C8_LayerOf(zz) == Cardinality({l \in 1..Len(d_cumulative) : zz > 2 * d_cumulative[l]})
C8_LocalOf(zz) ==
    IF C8_LayerOf(zz) = 0 THEN zz - 2 * d_cumulative[1]
    ELSE zz - 2 * d_cumulative[C8_LayerOf(zz)]

\* C8: for every positive z_step, calc_field_structure(z_step) succeeds (on a
\* structure on which it succeeds at the default step) and returns z and field
\* of equal length, z = z_step/2, 3 z_step/2, ... below the total thickness,
\* field[i] being the field of the layer that holds z[i], at z[i].
C8_FieldStructureAtAnyStep ==
    (/\ call.op = "calc_field_structure"
     /\ call.arg[1] > 0
     /\ calc_field_structure(1, n_11).ok)
        => /\ call.ok
           /\ Len(call.ret.z) = Len(call.ret.field)
           /\ \A i \in 1..Len(call.ret.z) :
                /\ call.ret.z[i] = call.arg[1] * (2 * i - 1)
                /\ call.ret.z[i] < 2 * d_cumulative[Len(d_cumulative)]
                /\ call.ret.field[i].layer = C8_LayerOf(call.ret.z[i])
                /\ call.ret.field[i].zz = C8_LocalOf(call.ret.z[i])

----------------------------------------------------------------------------
(* Calls of the wave-vector kernel (specification SpecKernel) *)

KernelIndices == {Scalar(Cx(1, 0)), Scalar(Cx(2, 1))}
LayerArgs == (0 - 1)..MaxLayers

KernelAddLayer ==
    \E n \in KernelIndices : num_layers < MaxLayers /\ add_layer(1, n)
KernelSetVacuumWavelength == set_vacuum_wavelength(Scalar(4))
KernelSetModeN11 == set_mode_n_11(Scalar(1500))

CalcXi == \E j \in LayerArgs : Query("calc_xi", <<j>>, calc_xi(j, n_11))
CalcK == \E j \in LayerArgs : Query("calc_k", <<j>>, calc_k(j))
CalcQ == \E j \in LayerArgs : Query("calc_q", <<j>>, calc_q(j, n_11))
CalcWaveVectorComponents ==
    \E j \in LayerArgs :
        Query("calc_wave_vector_components", <<j>>, calc_wave_vector_components(j, n_11))

NextKernel ==
    \/ KernelAddLayer
    \/ KernelSetVacuumWavelength
    \/ KernelSetModeN11
    \/ CalcXi
    \/ CalcK
    \/ CalcQ
    \/ CalcWaveVectorComponents

SpecKernel == Init /\ [][NextKernel]_vars

\* C7: calc_xi, calc_k, calc_q and calc_wave_vector_components return a value
\* exactly when the vacuum wavelength has been set (k_vac is not NaN) and j is
\* in 0..num_layers-1; they fail otherwise, negative j included.
C7_KernelGuards ==
    (call.op \in {"calc_xi", "calc_k", "calc_q", "calc_wave_vector_components"}) =>
        (call.ok <=> (~k_vac.nan /\ 0 <= call.arg[1] /\ call.arg[1] <= num_layers - 1))

----------------------------------------------------------------------------
(* The guided-mode calculations on wave guides of a few layers *)

MaxGuide == 3
MaxWavelength == 6

GuideIndices == {Scalar(Cx(2, 0)), Scalar(Cx(3, 0))}
GuideWavelengths == {Scalar(5)}
Signs == {"neg", "zero", "pos"}
RootPlaces == {1, 3}

\* the tables of signs of f over the scan points 0..last, NaN at the points of nan
TablesWith(last, nan) ==
    {[k \in 0..last |-> IF k \in nan THEN "nan" ELSE G[k]] :
        G \in [(0..last) \ nan -> Signs]}

\* the tables of f over the scan points of the structure: NaN exactly where
\* s_matrix is not finite, its exception when it raises one; one table when
\* f is never called
SignTables ==
    IF num_layers = 0 THEN [0..0 -> {"pos"}]
    ELSE LET a == 1000 * Max2(n_list[1].re, n_list[Len(n_list)].re)
             b == 1000 * SeqMax(RealParts, Len(n_list))
         IN  IF ~supports_guiding.val THEN [0..0 -> {"pos"}]
             ELSE IF ~s_matrix(Cx(a, 0)).ok THEN [0..0 -> {s_matrix(Cx(a, 0)).val}]
             ELSE TablesWith(ScanPoints(a, b),
                             {k \in 0..ScanPoints(a, b) :
                                 s_matrix(Cx(a + k * ScanStep, 0)).val.kind # "finite"})

\* what calc_guided_modes(normalised=False) can give with self.k_vac = kv
GuidedModes(kv) ==
    {calc_guided_modes(F, B, FALSE, kv) : F \in SignTables, B \in RootPlaces}

GuideAddLayer ==
    \E n \in GuideIndices : num_layers < MaxGuide /\ add_layer(1, n)
GuideSetVacuumWavelength == \E lam \in GuideWavelengths : set_vacuum_wavelength(lam)

CalcGuidedModes ==
    \E normalised \in BOOLEAN, F \in SignTables, B \in RootPlaces :
        LET r == calc_guided_modes(F, B, normalised, k_vac)
        IN  /\ run' = run /\ call' = [op |-> "calc_guided_modes", arg |-> <<normalised>>,
                        ok |-> r.ok, ret |-> r.val]
            /\ n_11' = IF r.last = <<>> THEN n_11 ELSE Cx(r.last[1], 0)
            /\ n11_by' = IF r.last = <<>> THEN n11_by ELSE "calc_s11"
            /\ UNCHANGED <<struct, lam_vac, k_vac, omega, field, pol, th, flipped>>

CalcGroupVelocity ==
    /\ lam_vac.nan \/ lam_vac.v <= MaxWavelength
    /\ IF lam_vac.nan
       THEN calc_group_velocity(<<>>, <<>>)
       ELSE \E r1 \in GuidedModes(Num(KVacOf(IntOfHalves(lam_vac.v + 2)))) :
                IF r1.ok /\ IntOfHalves(lam_vac.v - 2) > 0
                THEN \E r2 \in GuidedModes(Num(KVacOf(IntOfHalves(lam_vac.v - 2)))) :
                         calc_group_velocity(r1, r2)
                ELSE calc_group_velocity(r1, r1)

NextGuide ==
    \/ GuideAddLayer
    \/ GuideSetVacuumWavelength
    \/ CalcGuidedModes
    \/ CalcGroupVelocity

SpecGuide == Init /\ [][NextGuide]_vars

\* C9: calc_guided_modes returns its values from largest to smallest, each
\* strictly greater than the next, so no value is returned twice.
C9_ModesStrictlyDecreasing ==
    (call.op = "calc_guided_modes" /\ call.ok) =>
        \A i \in 1..(Len(call.ret) - 1) : call.ret[i] > call.ret[i + 1]

\* C10: calc_group_velocity fails whenever the two mode counts differ; when
\* it returns, the counts are equal and the two sample wavelengths satisfy
\* lower < lam_vac < upper.
C10_GroupVelocityGuards ==
    (call.op = "calc_group_velocity") =>
        /\ (/\ Len(call.ret.modes) = 2
            /\ Len(call.ret.modes[1]) # Len(call.ret.modes[2])) => ~call.ok
        /\ call.ok =>
              /\ Len(call.ret.modes) = 2
              /\ Len(call.ret.modes[1]) = Len(call.ret.modes[2])
              /\ call.ret.samples[1] < call.arg[1].v
              /\ call.arg[1].v < call.ret.samples[2]

\* the two mode counts differed and calc_group_velocity raised
C10_Witness ==
    /\ call.op = "calc_group_velocity"
    /\ ~call.ok
    /\ Len(call.ret.modes) = 2
    /\ Len(call.ret.modes[1]) # Len(call.ret.modes[2])

----------------------------------------------------------------------------
(* Fresnel coefficients of a single interface (specification SpecFresnel) *)

MaxFresnel == 2

FresnelThicknesses == {0, 2}
FresnelIndices == {Scalar(Cx(1, 0)), Scalar(Cx(2, 0)), Scalar(Cx(3, 0))}

FresnelAddLayer ==
    \E d \in FresnelThicknesses, n \in FresnelIndices :
        num_layers < MaxFresnel /\ add_layer(d, n)
FresnelSetPolarization == \E p \in {"s", "p", "TE", "TM"} : set_polarization(p)
FresnelSetField == \E f \in {"E", "H"} : set_field(f)
FresnelCalcRAndT == Query("calc_r_and_t", <<>>, calc_r_and_t(n_11))
FresnelCalcReflectanceAndTransmittance ==
    Query("calc_reflectance_and_transmittance", <<>>,
          calc_reflectance_and_transmittance(n_11))

NextFresnel ==
    \/ FresnelAddLayer
    \/ FresnelSetPolarization
    \/ FresnelSetField
    \/ FresnelCalcRAndT
    \/ FresnelCalcReflectanceAndTransmittance

SpecFresnel == Init /\ [][NextFresnel]_vars

\* calc_r_and_t() has returned for a structure of two layers at normal
\* incidence
TwoLayerNormalIncidence ==
    /\ call.op = "calc_r_and_t"
    /\ call.ok
    /\ num_layers = 2
    /\ n_11 = Cx(0, 0)

C12_EnergyConserved ==
    (/\ call.op = "calc_reflectance_and_transmittance"
     /\ call.ok
     /\ \A j \in 1..Len(n_list) : IsReal(n_list[j])
     /\ call.ret.R # <<>>
     /\ call.ret.T # <<>>) =>
        LET R == call.ret.R[1]
            T == call.ret.T[1]
        IN  R.n * T.d + T.n * R.d = R.d * T.d

----------------------------------------------------------------------------
(* Matrix products and field amplitudes (specification SpecMatrix) *)

MaxMatrix == 3

MatrixThicknesses == {0, 2}
MatrixIndices == {Scalar(Cx(1, 0)), Scalar(Cx(2, 0))}
MatrixWavelengths == {Scalar(4)}
MatrixModeN11s == {Scalar(1000), Scalar(1500)}

MatrixAddLayer ==
    \E d \in MatrixThicknesses, n \in MatrixIndices :
        num_layers < MaxMatrix /\ add_layer(d, n)
MatrixSetVacuumWavelength == \E lam \in MatrixWavelengths : set_vacuum_wavelength(lam)
MatrixSetModeN11 == \E x \in MatrixModeN11s : set_mode_n_11(x)

MatrixSMatrix == Query("s_matrix", <<>>, s_matrix(n_11))
MatrixSPrimedMatrix ==
    \E layer \in 0..(MaxMatrix - 1) :
        Query("s_primed_matrix", <<layer>>, s_primed_matrix(layer, n_11))
MatrixSDPrimedMatrix ==
    \E layer \in 0..(MaxMatrix - 1) :
        Query("s_dprimed_matrix", <<layer>>, s_dprimed_matrix(layer, n_11))
MatrixCalcRAndT == Query("calc_r_and_t", <<>>, calc_r_and_t(n_11))
MatrixCalcReflectanceAndTransmittance ==
    Query("calc_reflectance_and_transmittance", <<>>,
          calc_reflectance_and_transmittance(n_11))
MatrixLayerFieldAmplitudes ==
    \E layer \in 0..(MaxMatrix - 1) :
        Query("layer_field_amplitudes", <<layer>>, layer_field_amplitudes(layer, n_11))
MatrixCalcFieldStructure ==
    Query("calc_field_structure", <<1>>, calc_field_structure(1, n_11))
MatrixModeType == Query("mode_type", <<>>, mode_type(n_11))

NextMatrix ==
    \/ MatrixAddLayer
    \/ MatrixSetVacuumWavelength
    \/ MatrixSetModeN11
    \/ MatrixSMatrix
    \/ MatrixSPrimedMatrix
    \/ MatrixSDPrimedMatrix
    \/ MatrixCalcRAndT
    \/ MatrixCalcReflectanceAndTransmittance
    \/ MatrixLayerFieldAmplitudes
    \/ MatrixCalcFieldStructure
    \/ MatrixModeType

SpecMatrix == Init /\ [][NextMatrix]_vars

\* layer_field_amplitudes(layer) has returned from its radiative branch
RadiativeAmplitudes(layer) ==
    /\ call.op = "layer_field_amplitudes"
    /\ call.arg = <<layer>>
    /\ call.ok
    /\ call.ret.branch = "radiative"

\* C13: in the radiative branch layer_field_amplitudes(0) returns (1, r) and
\* layer_field_amplitudes(N - 1) returns (t, 0), with r and t the
\* coefficients that calc_r_and_t returns for the same object.
C13_CladdingAmplitudes ==
    /\ RadiativeAmplitudes(0) =>
           /\ calc_r_and_t(n_11).ok
           /\ call.ret.plus = One
           /\ call.ret.minus = calc_r_and_t(n_11).val.r
    /\ RadiativeAmplitudes(num_layers - 1) =>
           /\ calc_r_and_t(n_11).ok
           /\ call.ret.plus = calc_r_and_t(n_11).val.t
           /\ call.ret.minus = Zero

\* the radiative amplitudes of the entry layer of three layers have been
\* returned, computed of a finite s_matrix()
C13_Witness ==
    /\ RadiativeAmplitudes(0)
    /\ num_layers = 3
    /\ call.ret.kind = "finite"

\* C14: mode_type() returns 'Guided' exactly when layer_field_amplitudes
\* takes its guided branch, that is when n_11 >= max(n_entry, n_exit).
C14_ModeTypeMatchesBranch ==
    (call.op = "mode_type" /\ num_layers >= 3) =>
        (call.ret = "Guided" <=> ~IsRadiative(n_11))

\* the methods that C16 names
PureMethods ==
    {"s_matrix", "s_primed_matrix", "s_dprimed_matrix", "calc_r_and_t",
     "calc_reflectance_and_transmittance", "layer_field_amplitudes",
     "calc_field_structure"}

\* the outcome of calling the method op with the arguments arg again
Repeated(op, arg) ==
    CASE op = "s_matrix" -> s_matrix(n_11)
      [] op = "s_primed_matrix" -> s_primed_matrix(arg[1], n_11)
      [] op = "s_dprimed_matrix" -> s_dprimed_matrix(arg[1], n_11)
      [] op = "calc_r_and_t" -> calc_r_and_t(n_11)
      [] op = "calc_reflectance_and_transmittance" ->
             calc_reflectance_and_transmittance(n_11)
      [] op = "layer_field_amplitudes" -> layer_field_amplitudes(arg[1], n_11)
      [] op = "calc_field_structure" -> calc_field_structure(arg[1], n_11)

\* the outcome recorded for the last call
Outcome == [ok |-> call.ok, val |-> call.ret]

\* C16: s_matrix, s_primed_matrix, s_dprimed_matrix, calc_r_and_t,
\* calc_reflectance_and_transmittance, layer_field_amplitudes and
\* calc_field_structure leave every field of the structure and of the
\* configuration as it was, and calling them again gives the same outcome.
C16_CalculationsArePure ==
    /\ [][call'.op \in PureMethods => UNCHANGED <<struct, config>>]_vars
    /\ [](call.op \in PureMethods => Repeated(call.op, call.arg) = Outcome)

\* calc_field_structure has returned a field for three layers
C16_Witness ==
    /\ call.op = "calc_field_structure"
    /\ call.ok
    /\ num_layers = 3

\* I(j, j + 1) . L(j + 1) . I(j + 1, j + 2) ... I(k - 1, k)
RECURSIVE FactorsBetween(_, _)
FactorsBetween(j, k) ==
    IF j + 1 >= k THEN <<<<"I", j, j + 1>>>>
    ELSE <<<<"I", j, j + 1>>, <<"L", j + 1>>>> \o FactorsBetween(j + 1, k)

\* the number of factors of the kind `kind' in a product
CountOf(kind, factors) ==
    Cardinality({i \in 1..Len(factors) : factors[i][1] = kind})

\* C17: s_matrix() of N >= 2 layers is the product I(0,1) L(1) I(1,2) ...
\* L(N-2) I(N-2,N-1): N - 1 interface factors and N - 2 propagation factors
\* in increasing layer order, with no propagation through a cladding.
C17_SystemMatrixOrder ==
    (call.op = "s_matrix" /\ call.ok) =>
        /\ num_layers >= 2
        /\ call.ret.factors = FactorsBetween(0, num_layers - 1)
        /\ CountOf("I", call.ret.factors) = num_layers - 1
        /\ CountOf("L", call.ret.factors) = num_layers - 2
        /\ \A i \in 1..Len(call.ret.factors) :
               call.ret.factors[i][1] = "L" =>
                   call.ret.factors[i][2] \in 1..(num_layers - 2)

\* s_matrix() has returned for three layers
C17_Witness ==
    /\ call.op = "s_matrix"
    /\ call.ok
    /\ num_layers = 3

\* C18: s_primed_matrix(m) is the prefix of the product of s_matrix that
\* ends with I(m-1,m), s_dprimed_matrix(m) the suffix that starts with
\* I(m,m+1); for an internal layer m the prefix, L(m) and the suffix make up
\* the product of s_matrix; s_primed_matrix(1) is I(0,1) and
\* s_primed_matrix(N-1) is s_matrix().
C18_PartialProducts ==
    /\ (/\ call.op = "s_primed_matrix"
        /\ call.ok
        /\ call.arg[1] \in 1..(num_layers - 1)) =>
           /\ call.ret.factors = FactorsBetween(0, call.arg[1])
           /\ call.arg[1] = 1 => i_matrix(0, 1, n_11) = Outcome
           /\ call.arg[1] = num_layers - 1 => s_matrix(n_11) = Outcome
           /\ (call.arg[1] <= num_layers - 2 /\ s_matrix(n_11).ok) =>
                  /\ s_dprimed_matrix(call.arg[1], n_11).ok
                  /\ call.ret.factors \o <<<<"L", call.arg[1]>>>>
                         \o s_dprimed_matrix(call.arg[1], n_11).val.factors
                     = s_matrix(n_11).val.factors
    /\ (/\ call.op = "s_dprimed_matrix"
        /\ call.ok
        /\ call.arg[1] \in 1..(num_layers - 2)) =>
           call.ret.factors = FactorsBetween(call.arg[1], num_layers - 1)

\* s_primed_matrix(1) has returned for three layers of which s_matrix()
\* returns the product
C18_Witness ==
    /\ call.op = "s_primed_matrix"
    /\ call.arg = <<1>>
    /\ call.ok
    /\ num_layers = 3
    /\ s_matrix(n_11).ok

\* C19: in the guided branch layer_field_amplitudes never returns an
\* amplitude that is infinite or NaN.
C19_GuidedAmplitudesFinite ==
    (/\ call.op = "layer_field_amplitudes"
     /\ call.ok
     /\ call.ret.branch = "guided") =>
        call.ret.kind = "finite"

\* calc_field_structure() has been called with its default step
FieldStructureCalled ==
    /\ call.op = "calc_field_structure"
    /\ call.arg = <<1>>

\* some internal layer has no thickness
InternalLayerWithoutThickness ==
    \E j \in 2..(num_layers - 1) : d_list[j] = 0

\* the interface and propagation factors that the amplitudes amp are taken of
FactorsOf(amp) ==
    {(amp.plus.of \o amp.minus.of)[i] : i \in 1..Len(amp.plus.of \o amp.minus.of)}

----------------------------------------------------------------------------
(* calc_field_structure() step by step, on an object that another caller    *)
(* writes to (specification SpecShared).  The loop of calc_field_structure   *)
(* sleeps in every iteration (time.sleep(0.2)), where another thread runs.   *)
(* run holds the locals of the calculation: z, z_mat, field and the layer    *)
(* of the next iteration; as history it holds the record that the start of   *)
(* the calculation left in call (began), the structure and configuration at  *)
(* the start (entry) and those that each iteration has read (reads).         *)

MaxShared == 3

SharedIndices == {Scalar(Cx(1, 0)), Scalar(Cx(2, 0))}
SharedWavelengths == {Scalar(4)}
SharedModeN11s == {Scalar(1000), Scalar(1500)}

\* the record left in call while calc_field_structure(z_step) is under way
Began(z_step) ==
    [op |-> "calc_field_structure (under way)", arg |-> <<z_step>>,
     ok |-> TRUE, ret |-> <<>>]

\* the end of calc_field_structure with the outcome res; clean: no other
\* call has been made on the object since the calculation started
Ended(arg, res, clean, entry, reads) ==
    /\ call' = [op |-> "calc_field_structure", arg |-> arg, ok |-> res.ok,
                ret |-> res.val, clean |-> clean, entry |-> entry, reads |-> reads]
    /\ run' = Idle

\* the lines of calc_field_structure before its loop
begin_field_structure(z_step) ==
    /\ ~run.active
    /\ IF Len(d_cumulative) = 0
       THEN Ended(<<z_step>>, Err("IndexError"), TRUE, <<struct, config>>, <<>>)
       ELSE IF Len(Arange(d_cumulative[Len(d_cumulative)], z_step)) = 0
       THEN Ended(<<z_step>>, Err("ValueError"), TRUE, <<struct, config>>, <<>>)
       ELSE /\ run' = [active |-> TRUE,
                       arg |-> <<z_step>>,
                       z |-> Arange(d_cumulative[Len(d_cumulative)], z_step),
                       zmat |-> ZMat(Arange(d_cumulative[Len(d_cumulative)], z_step)),
                       fld |-> Zeros(Arange(d_cumulative[Len(d_cumulative)], z_step)),
                       layer |-> FirstLayer(ZMat(Arange(d_cumulative[Len(d_cumulative)],
                                                        z_step))),
                       last |-> LastLayer(ZMat(Arange(d_cumulative[Len(d_cumulative)],
                                                      z_step))),
                       began |-> Began(z_step),
                       entry |-> <<struct, config>>,
                       reads |-> <<>>]
            /\ call' = Began(z_step)
    /\ UNCHANGED <<struct, config, n11_by, flipped>>

\* an iteration that leaves n_11 at another value, as calc_s11 does
IterationFrameProbing ==
    /\ n_11' = Cx(1000 + ((n_11.re + 500) % 1000), n_11.im)
    /\ UNCHANGED <<struct, lam_vac, k_vac, omega, field, pol, th, n11_by, flipped>>

\* one iteration of the loop writes no attribute of the object
IterationFrame == UNCHANGED <<struct, config, n11_by, flipped>>

\* field[z_indices] = self.calc_layer_field(layer)['field']
Iteration(fld, layer, zmat, x) ==
    Then(calc_layer_field(layer, 1, x), LAMBDA lf :
        IF ~AssignOK(LayerIndices(zmat, layer), lf.field) THEN Err("ValueError")
        ELSE Ok(Assign(fld, LayerIndices(zmat, layer), lf.field)))

\* one iteration of the loop of calc_field_structure
step_field_structure ==
    /\ run.active
    /\ run.layer <= run.last
    /\ LET res == Iteration(run.fld, run.layer, run.zmat, n_11)
       IN  IF res.ok
           THEN /\ run' = [run EXCEPT !.fld = res.val,
                                      !.layer = @ + 1,
                                      !.reads = Append(@, <<struct, config>>)]
                /\ call' = call
           ELSE Ended(run.arg, res, call = run.began, run.entry,
                      Append(run.reads, <<struct, config>>))
    /\ IterationFrame

\* the lines of calc_field_structure after its loop
end_field_structure ==
    /\ run.active
    /\ run.layer > run.last
    /\ Ended(run.arg, Ok([z |-> run.z, field |-> run.fld]), call = run.began,
             run.entry, run.reads)
    /\ UNCHANGED <<struct, config, n11_by, flipped>>

SharedAddLayer ==
    \E n \in SharedIndices : num_layers < MaxShared /\ add_layer(2, n)
SharedSetVacuumWavelength == \E lam \in SharedWavelengths : set_vacuum_wavelength(lam)
SharedSetModeN11 == \E x \in SharedModeN11s : set_mode_n_11(x)
BeginFieldStructure == begin_field_structure(1)
StepFieldStructure == step_field_structure
EndFieldStructure == end_field_structure

NextShared ==
    \/ SharedAddLayer
    \/ SharedSetVacuumWavelength
    \/ SharedSetModeN11
    \/ BeginFieldStructure
    \/ StepFieldStructure
    \/ EndFieldStructure

SpecShared == Init /\ [][NextShared]_vars

\* a calc_field_structure() that ran step by step has ended
FieldStructureEnded ==
    /\ call.op = "calc_field_structure"
    /\ "clean" \in DOMAIN call

\* C15: when no write interleaves with a calculation, every step of it reads
\* the same Structure and Configuration (those of its entry), and its outcome
\* is that of the calculation on that Structure and Configuration.  (That an
\* interleaved write can give a result matching neither the entry nor the
\* exit configuration is the state C15_NeitherEntryNorExit.)
C15_NoWriteSameReads ==
    (FieldStructureEnded /\ call.clean) =>
        /\ \A i \in 1..Len(call.reads) : call.reads[i] = call.entry
        /\ call.entry = <<struct, config>>
        /\ calc_field_structure(call.arg[1], n_11) = [ok |-> call.ok, val |-> call.ret]

\* a calculation with an interleaved write of n_11 has returned a field that
\* is neither the field of the configuration at its entry nor the field of
\* the configuration at its exit
C15_NeitherEntryNorExit ==
    /\ FieldStructureEnded
    /\ call.ok
    /\ ~call.clean
    /\ call.entry[1] = struct
    /\ call.entry[2][1] = lam_vac
    /\ calc_field_structure(call.arg[1], call.entry[2][7]).ok
    /\ calc_field_structure(call.arg[1], call.entry[2][7]).val # call.ret
    /\ calc_field_structure(call.arg[1], n_11).ok
    /\ calc_field_structure(call.arg[1], n_11).val # call.ret

\* a calculation of three iterations has ended with no interleaved write
C15_Witness ==
    /\ FieldStructureEnded
    /\ call.ok
    /\ call.clean
    /\ Len(call.reads) = 3

----------------------------------------------------------------------------
(* Further claims about the structure and the configuration *)

\* d_list, n_list and d_cumulative after flip() on the lists d and n
Flipped(d, n) == <<Reverse(d), Reverse(n), CumSum(Reverse(d))>>

\* C26: flip() applied twice restores d_list, n_list and d_cumulative, and
\* one flip() changes neither num_layers nor any field of the configuration.
C26_FlipTwiceRestores ==
    /\ [][call'.op = "flip" =>
             /\ <<d_list, n_list, d_cumulative>>' = Flipped(d_list, n_list)
             /\ UNCHANGED <<num_layers, config>>]_vars
    /\ [](Flipped(Flipped(d_list, n_list)[1], Flipped(d_list, n_list)[2])
              = <<d_list, n_list, d_cumulative>>)

\* flip() has run on a structure of two layers that differ in thickness and
\* in index
C26_Witness ==
    /\ call.op = "flip"
    /\ num_layers = 2
    /\ d_list[1] # d_list[2]
    /\ n_list[1] # n_list[2]

\* C27: lam_vac, k_vac and omega are all NaN or all set from one positive
\* wavelength (k_vac = 2 pi / lam_vac, omega = c k_vac); they leave NaN only
\* through a set_vacuum_wavelength call that returns, made on a structure of
\* at least one layer.
C27_WavelengthConsistent ==
    /\ [](\/ lam_vac.nan /\ k_vac.nan /\ omega.nan
          \/ /\ ~lam_vac.nan /\ ~k_vac.nan /\ ~omega.nan
             /\ lam_vac.v > 0
             /\ k_vac.v = KVacOf(lam_vac.v)
             /\ omega.v = SpeedC * k_vac.v)
    /\ [][(lam_vac.nan /\ ~lam_vac'.nan) =>
             /\ call'.op = "set_vacuum_wavelength"
             /\ call'.ok
             /\ num_layers >= 1]_vars

\* the wavelength has been moved from the one that set_vacuum_wavelength set
\* to a sample wavelength of calc_group_velocity
C27_Witness ==
    /\ call.op = "calc_group_velocity"
    /\ ~lam_vac.nan
    /\ lam_vac # call.arg[1]

\* C28: set_incident_angle is atomic: when the call fails, th and n_11 keep
\* the values they had before it.
C28_SetIncidentAngleAtomic ==
    [][(call'.op = "set_incident_angle" /\ ~call'.ok) =>
          (th' = th /\ n_11' = n_11)]_vars

----------------------------------------------------------------------------
(* Further claims about the guided modes (specifications SpecGuide and SpecModes) *)

\* C29: when calc_guided_modes returns, n_11 has the value it had at entry
\* and no other field of the structure or of the configuration has changed.
C29_ProbeRestored ==
    [][(call'.op = "calc_guided_modes" /\ call'.ok) =>
          UNCHANGED <<struct, config>>]_vars

\* C30: on every exit from calc_group_velocity, by return or by failure,
\* lam_vac, k_vac and omega have the values they had at entry.
C30_WavelengthRestored ==
    [][call'.op = "calc_group_velocity" => UNCHANGED <<lam_vac, k_vac, omega>>]_vars

\* the ends of the search interval of calc_guided_modes, in thousandths:
\* max(n[0], n[-1]) and max(n)
SearchLower == 1000 * Max2(n_list[1].re, n_list[Len(n_list)].re)
SearchUpper == 1000 * SeqMax(RealParts, Len(n_list))

\* C22: the last value of n_11 at which calc_guided_modes has evaluated f,
\* and every eigenvalue it returns, lie in the search interval
\* [max(n_entry, n_exit), max_j Re(n_j)).
C22_ProbesInsideInterval ==
    (call.op = "calc_guided_modes" /\ n11_by = "calc_s11") =>
        /\ SearchLower <= n_11.re /\ n_11.re < SearchUpper
        /\ (call.ok /\ call.arg[1]) =>
               \A i \in 1..Len(call.ret) :
                   SearchLower <= call.ret[i] /\ call.ret[i] < SearchUpper

----------------------------------------------------------------------------
(* The layer of every sample (specification SpecMatrix) *)

\* z and z_mat of calc_field_structure() at the default step
UnitGrid == Arange(d_cumulative[Len(d_cumulative)], 1)

\* C21: calc_field_structure gives every sample position exactly one layer
\* index in 0..num_layers-1, the number of cumulative boundaries strictly
\* below it; the index does not decrease along the positions; and at unit
\* step the samples given to a layer are as many as calc_layer_field
\* produces for it, and are those of get_layer_position_indices.
C21_SamplesByLayer ==
    num_layers >= 1 =>
        /\ \A i \in 1..Len(UnitGrid) :
               /\ ZMat(UnitGrid)[i] \in 0..(num_layers - 1)
               /\ ZMat(UnitGrid)[i] =
                      Cardinality({l \in 1..num_layers : UnitGrid[i] > 2 * d_cumulative[l]})
               /\ i > 1 => ZMat(UnitGrid)[i - 1] <= ZMat(UnitGrid)[i]
        /\ \A layer \in 0..(num_layers - 1) :
               /\ get_layer_position_indices(layer, 1).val
                      = {i \in 1..Len(UnitGrid) : ZMat(UnitGrid)[i] = layer}
               /\ Cardinality(get_layer_position_indices(layer, 1).val)
                      = Len(Arange(d_list[layer + 1], 1))
        /\ (FieldStructureCalled /\ call.ok) =>
               /\ call.ret.z = UnitGrid
               /\ \A i \in 1..Len(call.ret.field) :
                      call.ret.field[i].layer = ZMat(UnitGrid)[i]

\* calc_field_structure() has returned samples of all three layers of a
\* structure
C21_Witness ==
    /\ FieldStructureCalled
    /\ call.ok
    /\ num_layers = 3
    /\ {call.ret.field[i].layer : i \in 1..Len(call.ret.field)} = {0, 1, 2}

----------------------------------------------------------------------------
(* The root finder on its own (specification SpecRoots) *)

\* the widest interval [a, b] given to roots
MaxSpan == 1000

\* the intervals [a, b] given to roots: one that holds 0.0 as a scan point,
\* two above it
RootsIntervals ==
    {<<0 - ScanStep, ScanStep>>, <<1000, 1000>>, <<1000, 1000 + MaxSpan>>}

\* roots(f, a, b, eps) for a function f with the signs F at the scan points
Roots ==
    \E I \in RootsIntervals, B \in RootPlaces :
        \E F \in [0..ScanPoints(I[1], I[2]) -> Signs] :
            LET r == roots(F, B, I[1], I[2])
            IN  /\ call' = [op |-> "roots", arg |-> <<F, B, I[1], I[2]>>,
                            ok |-> r.ok, ret |-> r.val]
                /\ UNCHANGED <<struct, config, run, n11_by, flipped>>

NextRoots == Roots

SpecRoots == Init /\ [][NextRoots]_vars

\* the roots of the pairs of scan points k.., one for each pair at which
\* the sign of f differs, rounded
RECURSIVE RootsOfPairs(_, _, _, _, _)
RootsOfPairs(F, B, a, k, last) ==
    IF k > last THEN <<>>
    ELSE (IF F[k] # F[k + 1]
          THEN <<RoundToStep(brentq(F, B, a, a + k * ScanStep, a + (k + 1) * ScanStep))>>
          ELSE <<>>)
         \o RootsOfPairs(F, B, a, k + 1, last)

\* C23: roots(f, a, b, eps) steps by eps from a and records exactly one root
\* for each pair of consecutive scan points at which the sign of f differs,
\* none for a pair of the same sign; the root lies inside its bracket
\* before it is rounded.
C23_OneRootPerSignChange ==
    (call.op = "roots" /\ call.ok) =>
        LET F == call.arg[1]
            B == call.arg[2]
            a == call.arg[3]
            b == call.arg[4]
        IN  /\ call.ret = RootsOfPairs(F, B, a, 0, ScanPoints(a, b) - 1)
            /\ Len(call.ret)
                   = Cardinality({k \in 0..(ScanPoints(a, b) - 1) : F[k] # F[k + 1]})
            /\ \A k \in 0..(ScanPoints(a, b) - 1) :
                   F[k] # F[k + 1] =>
                       LET root == brentq(F, B, a, a + k * ScanStep, a + (k + 1) * ScanStep)
                       IN  a + k * ScanStep <= root /\ root <= a + (k + 1) * ScanStep

----------------------------------------------------------------------------
(* Guided modes of structures with different claddings (specification
   SpecModes) *)

MaxModes == 3

ModesIndices == {Scalar(Cx(1, 0)), Scalar(Cx(2, 0)), Scalar(Cx(3, 0))}

ModesAddLayer ==
    \E n \in ModesIndices : num_layers < MaxModes /\ add_layer(1, n)

NextModes ==
    \/ ModesAddLayer
    \/ GuideSetVacuumWavelength
    \/ CalcGuidedModes

SpecModes == Init /\ [][NextModes]_vars

\* C24: calc_guided_modes returns no eigenvalue within the tolerance 0.01
\* of the lower bound max(n_entry, n_exit) of the search interval, whatever
\* the two claddings are.
C24_NoModeAtLowerBound ==
    (call.op = "calc_guided_modes" /\ call.ok /\ call.arg[1]) =>
        \A i \in 1..Len(call.ret) : call.ret[i] - SearchLower >= 10

\* C25: on a structure that supports guiding, with the wavelength set,
\* calc_guided_modes returns an array of eigenvalues for every table of
\* signs of f: the scan does not abort partway.
C25_ScanReturns ==
    (call.op = "calc_guided_modes" /\ supports_guiding.ok /\ supports_guiding.val
        /\ ~k_vac.nan) => call.ok

====
